---- MODULE Spec2Model ----
(***************************************************************************)
(* SentrySpanProcessor (sentry_sdk/integrations/opentelemetry/             *)
(* span_processor.py): the bridge that turns OpenTelemetry span start/end  *)
(* notifications into Sentry transactions and spans.                       *)
(*                                                                         *)
(* Every Python str (span names, attribute values, op, description, hex    *)
(* ids, baggage) is a sequence of one-character strings, so that           *)
(* concatenation and case conversion are computed.  Python's None, True    *)
(* and False are one-element sequences whose element is their name: no str *)
(* has an element of more than one character, so None is equal to no str,  *)
(* the text "None" and the empty text included.  Dictionary keys of the    *)
(* attribute, context and resource dictionaries are TLA+ strings.          *)
(***************************************************************************)
EXTENDS Integers, Sequences, FiniteSets, TLC

VARIABLES
    otel_span_map,  \* SentrySpanProcessor.otel_span_map: hex span id -> handle
    objs,           \* the native objects created so far; a handle is an index
    started,        \* foreign span ids whose on_start has been delivered
    ended,          \* foreign span ids whose on_end has been delivered
    sessionless,    \* the ids whose on_start came while no session was active
    stray,          \* the ids with an on_end before their on_start, or a second one
    last,           \* the last notification: what it read, the mapping and the
                    \* native objects before it, the native calls it made,
                    \* whether it raised
    pending         \* the handlers that have begun and not returned, for
                    \* calls that overlap: the locals of each

vars == <<otel_span_map, objs, started, ended, sessionless, stray, last, pending>>

None == <<"None">>
True == <<"True">>
False == <<"False">>
NoObj == 0

(***************************************************************************)
(* Bounds of the model.                                                    *)
(***************************************************************************)
NumSpans == 2
IdStride == 171

SpanIds == {IdStride * k : k \in 1..NumSpans}
\* a parent id the tracer reports but whose span never starts
UntrackedId == IdStride * (NumSpans + 1)
TraceIds == {IdStride * IdStride}

(***************************************************************************)
(* Program constants.                                                      *)
(***************************************************************************)
OPEN_TELEMETRY_CONTEXT == "otel"
SENTRY_TRACE_KEY == "sentry-trace"
SENTRY_BAGGAGE_KEY == "sentry-baggage"
HTTP_METHOD == "http.method"
DB_SYSTEM == "db.system"
NET_PEER_NAME == "net.peer.name"
HTTP_TARGET == "http.target"
HTTP_STATUS_CODE == "http.status_code"
DB_STATEMENT == "db.statement"
NsPerSecond == 1000000000
SpanIdWidth == 16
TraceIdWidth == 32

(***************************************************************************)
(* Text and formatting.                                                    *)
(***************************************************************************)
HexDigits == <<"0", "1", "2", "3", "4", "5", "6", "7",
               "8", "9", "a", "b", "c", "d", "e", "f">>

RECURSIVE Hex(_, _)
\* format(n, "0<width>x"): lowercase hex, zero-padded to at least width digits
Hex(n, width) ==
    IF n < 16 /\ width <= 1
    THEN <<HexDigits[n + 1]>>
    ELSE Hex(n \div 16, width - 1) \o <<HexDigits[(n % 16) + 1]>>

\* the id in hex with no padding
format_span_id_Unpadded(span_id) == Hex(span_id, 1)

format_span_id(span_id) == Hex(span_id, SpanIdWidth)
format_trace_id(trace_id) == Hex(trace_id, TraceIdWidth)

(***************************************************************************)
(* datetime.fromtimestamp(ns / 1e9).  The division is a division of        *)
(* doubles and the datetime holds microseconds: fromtimestamp splits the   *)
(* quotient into its whole part and its fraction, multiplies the fraction  *)
(* by 1e6 and rounds the product half to even.  For 0 <= ns < 2^31 the     *)
(* error of the two floating-point roundings is below 1e-9 microsecond, so *)
(* the result is the nearest microsecond unless ns lies exactly between    *)
(* two microseconds; then the sign of the error decides, and it is         *)
(* computed here as the double arithmetic computes it.                     *)
(***************************************************************************)
NsPerMicrosecond == 1000
MicrosecondsPerSecond == NsPerSecond \div NsPerMicrosecond

\* 1e9 = 2^9 * 5^9: the odd factor of the divisor
OddFactor == NsPerSecond \div 512

\* the bits of a double's significand after the leading one
SignificandBits == 52

RECURSIVE Pow2(_)
Pow2(k) == IF k = 0 THEN 1 ELSE 2 * Pow2(k - 1)

RECURSIVE FloorLog2(_)
FloorLog2(n) ==
    IF n >= 1024 THEN 10 + FloorLog2(n \div 1024)
    ELSE IF n < 2 THEN 0 ELSE 1 + FloorLog2(n \div 2)

RECURSIVE QuotientExponent(_)
\* the binary exponent of ns / 1e9, for ns > 0
QuotientExponent(ns) ==
    IF ns >= 2 * NsPerSecond THEN 1
    ELSE IF ns >= NsPerSecond THEN 0
    ELSE IF ns <= NsPerSecond \div 1024 THEN QuotientExponent(1024 * ns) - 10
    ELSE QuotientExponent(2 * ns) - 1

RECURSIVE DoubledMod(_, _)
\* r * 2^k modulo the odd factor
DoubledMod(r, k) ==
    IF k >= 10 THEN DoubledMod((1024 * r) % OddFactor, k - 10)
    ELSE (Pow2(k) * r) % OddFactor

\* the error of the double ns / 1e9 against the exact quotient, in units of
\* (the last place of the quotient) / OddFactor: negative when the division
\* rounded down
QuotientError(ns) ==
    LET shift == SignificandBits - 9 - QuotientExponent(ns)
        t == DoubledMod(ns % OddFactor, shift)
    IN  IF 2 * t < OddFactor THEN 0 - t ELSE OddFactor - t

\* the product fraction * 1e6 for a time half-way between the microseconds
\* m and m + 1 is the double m + 0.5 itself: the error of the quotient,
\* E * 2^(e - 46) / 125 microseconds, is at most half a unit in the last
\* place of the product
ProductIsHalf(ns, m, E) ==
    LET e == QuotientExponent(ns)
        e2 == IF m = 0 /\ E < 0 THEN 0 - 2 ELSE FloorLog2(2 * m + 1) - 1
        j == e + 7 - e2
        a == IF E < 0 THEN 0 - E ELSE E
    IN  IF j >= 0 THEN a * Pow2(j) <= 125
        ELSE (0 - j >= 14) \/ (a <= 125 * Pow2(0 - j))

\* round(fraction * 1e6), half to even, before the carry into the seconds
Microseconds(ns) ==
    LET m == (ns % NsPerSecond) \div NsPerMicrosecond
        r == ns % NsPerMicrosecond
        E == QuotientError(ns)
    IN  IF 2 * r # NsPerMicrosecond
        THEN (IF 2 * r > NsPerMicrosecond THEN m + 1 ELSE m)
        ELSE IF ProductIsHalf(ns, m, E)
        THEN (IF m % 2 = 0 THEN m ELSE m + 1)
        ELSE (IF E > 0 THEN m + 1 ELSE m)

\* the datetime: its whole seconds, and its microseconds as nanoseconds
FromTimestamp(ns) ==
    LET us == Microseconds(ns)
        carry == IF us >= MicrosecondsPerSecond THEN 1 ELSE 0
    IN  [sec |-> (ns \div NsPerSecond) + carry,
         frac |-> (us - carry * MicrosecondsPerSecond) * NsPerMicrosecond]

\* "{}".format(v) of a text value is the value
Format(v) == v

Space == <<" ">>
HttpPrefix == <<"h", "t", "t", "p", ".">>
DbOp == <<"d", "b">>

\* dict.get(key, None)
Get(d, key) == IF key \in DOMAIN d THEN d[key] ELSE None

\* Python truthiness of a str or None: every str but the empty one is truthy
Truthy(v) == v # None /\ v # <<>>

\* d[key] = val on a dictionary
Put(d, key, val) ==
    [k \in DOMAIN d \cup {key} |-> IF k = key THEN val ELSE d[k]]

\* the dictionary without key
Without(d, key) == [k \in DOMAIN d \ {key} |-> d[k]]

EmptyDict == [k \in {} |-> None]

(***************************************************************************)
(* The native tracer (sentry_sdk.hub, sentry_sdk.tracing).  A native       *)
(* object is a record; a transaction is the root variant, a span the       *)
(* non-root variant.  Every native object is truthy.                       *)
(***************************************************************************)
\* Hub.start_transaction(name, span_id, parent_span_id, trace_id, baggage,
\* start_timestamp, instrumenter): a new Transaction
StartTransaction(args) ==
    [kind |-> "transaction",
     span_id |-> args.span_id,
     parent_span_id |-> args.parent_span_id,
     trace_id |-> args.trace_id,
     baggage |-> args.baggage,
     name |-> args.name,
     op |-> None,
     description |-> None,
     start_timestamp |-> args.start_timestamp,
     instrumenter |-> args.instrumenter,
     parent |-> NoObj,
     data |-> EmptyDict,
     contexts |-> EmptyDict,
     http_status |-> None,
     finished |-> FALSE,
     end_timestamp |-> None]

\* Span.start_child(span_id, description, start_timestamp, instrumenter) on
\* the object with handle p: a new Span in p's trace, with p as its parent
StartChild(p, args) ==
    [kind |-> "span",
     span_id |-> args.span_id,
     parent_span_id |-> objs[p].span_id,
     trace_id |-> objs[p].trace_id,
     baggage |-> None,
     name |-> None,
     op |-> None,
     description |-> args.description,
     start_timestamp |-> args.start_timestamp,
     instrumenter |-> args.instrumenter,
     parent |-> p,
     data |-> EmptyDict,
     contexts |-> EmptyDict,
     http_status |-> None,
     finished |-> FALSE,
     end_timestamp |-> None]

\* isinstance(sentry_span, Transaction)
IsTransaction(o) == o.kind = "transaction"

\* Span.set_data(key, value)
SetData(o, key, val) == [o EXCEPT !.data = Put(@, key, val)]

\* Span.set_http_status(code): the status-code tag
SetHttpStatus(o, code) == [o EXCEPT !.http_status = code]

\* Transaction.set_context(key, value)
SetContext(o, key, val) == [o EXCEPT !.contexts = Put(@, key, val)]

\* Span.finish(end_timestamp)
Finish(o, end_timestamp) ==
    [o EXCEPT !.finished = TRUE, !.end_timestamp = end_timestamp]

\* one recorded call on the native tracer: the function, the handle of the
\* object it was called on (NoObj for the hub), its arguments
Call(fn, on, args) == [fn |-> fn, on |-> on, args |-> args]

(***************************************************************************)
(* SentrySpanProcessor._get_trace_data                                     *)
(***************************************************************************)
\* opentelemetry.context.get_value(key, context)
get_value(key, context) == Get(context, key)

\* the baggage read only when the trace header is there
_get_trace_data_Coupled(otel_span, parent_context) ==
    [span_id |-> format_span_id(otel_span.context.span_id),
     trace_id |-> format_trace_id(otel_span.context.trace_id),
     parent_span_id |->
        IF otel_span.parent # <<>>
        THEN format_span_id(otel_span.parent[1].span_id)
        ELSE None,
     parent_sampled |->
        IF SENTRY_TRACE_KEY \in DOMAIN parent_context
        THEN parent_context[SENTRY_TRACE_KEY][3]
        ELSE None,
     baggage |->
        IF SENTRY_TRACE_KEY \in DOMAIN parent_context
        THEN get_value(SENTRY_BAGGAGE_KEY, parent_context)
        ELSE None]

\* the baggage dropped when the parent was sampled out
_get_trace_data_SampledOut(otel_span, parent_context) ==
    [span_id |-> format_span_id(otel_span.context.span_id),
     trace_id |-> format_trace_id(otel_span.context.trace_id),
     parent_span_id |->
        IF otel_span.parent # <<>>
        THEN format_span_id(otel_span.parent[1].span_id)
        ELSE None,
     parent_sampled |->
        IF SENTRY_TRACE_KEY \in DOMAIN parent_context
        THEN parent_context[SENTRY_TRACE_KEY][3]
        ELSE None,
     baggage |->
        IF /\ SENTRY_TRACE_KEY \in DOMAIN parent_context
           /\ parent_context[SENTRY_TRACE_KEY][3] = False
        THEN None
        ELSE get_value(SENTRY_BAGGAGE_KEY, parent_context)]

_get_trace_data(otel_span, parent_context) ==
    LET span_id == format_span_id(otel_span.context.span_id)
        trace_id == format_trace_id(otel_span.context.trace_id)
        parent_span_id ==
            IF otel_span.parent # <<>>
            THEN format_span_id(otel_span.parent[1].span_id)
            ELSE None
        sentry_trace_data == get_value(SENTRY_TRACE_KEY, parent_context)
        baggage == get_value(SENTRY_BAGGAGE_KEY, parent_context)
    IN  [span_id |-> span_id,
         trace_id |-> trace_id,
         parent_span_id |-> parent_span_id,
         parent_sampled |->
            IF sentry_trace_data # None /\ sentry_trace_data # <<>>
            THEN sentry_trace_data[3]
            ELSE None,
         baggage |-> baggage]

(***************************************************************************)
(* SentrySpanProcessor.on_start                                            *)
(***************************************************************************)
\* a span with a parent id attached to any live entry when its own parent is
\* not one
LookupParent_AnyLive(map, parent_span_id) ==
    IF parent_span_id # None /\ parent_span_id # <<>>
    THEN (IF parent_span_id \in DOMAIN map THEN map[parent_span_id]
          ELSE IF DOMAIN map # {} THEN map[CHOOSE k \in DOMAIN map : TRUE]
          ELSE NoObj)
    ELSE NoObj

\* self.otel_span_map.get(parent_span_id, None) if parent_span_id else None
LookupParent(map, parent_span_id) ==
    IF parent_span_id # None /\ parent_span_id # <<>>
    THEN (IF parent_span_id \in DOMAIN map THEN map[parent_span_id] ELSE NoObj)
    ELSE NoObj

\* the child given its parent's id instead of its own
StartCall_ParentId(otel_span, trace_data, sentry_parent_span) ==
    IF sentry_parent_span # NoObj
    THEN Call("start_child", sentry_parent_span,
              [span_id |-> trace_data.parent_span_id,
               description |-> otel_span.name,
               start_timestamp |-> FromTimestamp(otel_span.start_time),
               instrumenter |-> "sentry"])
    ELSE Call("start_transaction", NoObj,
              [name |-> otel_span.name,
               span_id |-> trace_data.span_id,
               parent_span_id |-> trace_data.parent_span_id,
               trace_id |-> trace_data.trace_id,
               baggage |-> trace_data.baggage,
               start_timestamp |-> FromTimestamp(otel_span.start_time),
               instrumenter |-> "sentry"])

\* the transaction started without the ambient baggage
StartCall_NoBaggage(otel_span, trace_data, sentry_parent_span) ==
    IF sentry_parent_span # NoObj
    THEN Call("start_child", sentry_parent_span,
              [span_id |-> trace_data.span_id,
               description |-> otel_span.name,
               start_timestamp |-> FromTimestamp(otel_span.start_time),
               instrumenter |-> "sentry"])
    ELSE Call("start_transaction", NoObj,
              [name |-> otel_span.name,
               span_id |-> trace_data.span_id,
               parent_span_id |-> trace_data.parent_span_id,
               trace_id |-> trace_data.trace_id,
               baggage |-> None,
               start_timestamp |-> FromTimestamp(otel_span.start_time),
               instrumenter |-> "sentry"])

\* the native call on_start makes for a span whose parent lookup gave
\* sentry_parent_span
StartCall(otel_span, trace_data, sentry_parent_span) ==
    IF sentry_parent_span # NoObj
    THEN Call("start_child", sentry_parent_span,
              [span_id |-> trace_data.span_id,
               description |-> otel_span.name,
               start_timestamp |-> FromTimestamp(otel_span.start_time),
               instrumenter |-> "sentry"])
    ELSE Call("start_transaction", NoObj,
              [name |-> otel_span.name,
               span_id |-> trace_data.span_id,
               parent_span_id |-> trace_data.parent_span_id,
               trace_id |-> trace_data.trace_id,
               baggage |-> trace_data.baggage,
               start_timestamp |-> FromTimestamp(otel_span.start_time),
               instrumenter |-> "sentry"])

\* a handler that returns or raises early has read the span id at most
IdView(otel_span) == [span_id |-> otel_span.context.span_id]

\* what on_start reads of the foreign span
StartView(otel_span) ==
    [span_id |-> otel_span.context.span_id,
     trace_id |-> otel_span.context.trace_id,
     parent |-> otel_span.parent,
     name |-> otel_span.name,
     start_time |-> otel_span.start_time]

\* the check of the session left out
NoSession_Never(hub) == FALSE

\* hub = Hub.current; if not hub: return
NoSession(hub) == ~hub

\* the native object created and not kept
Stored_Dropped(map, span_id, sentry_span) == map

\* self.otel_span_map[trace_data["span_id"]] = sentry_span
Stored(map, span_id, sentry_span) == Put(map, span_id, sentry_span)

on_start(otel_span, parent_context, hub) ==
    /\ otel_span.context.span_id \notin started
    /\ started' = started \cup {otel_span.context.span_id}
    /\ sessionless' = IF hub THEN sessionless
                      ELSE sessionless \cup {otel_span.context.span_id}
    /\ UNCHANGED <<ended, stray, pending>>
    /\ IF NoSession(hub)
       THEN /\ UNCHANGED <<otel_span_map, objs>>
            /\ last' = [call |-> "on_start", span |-> IdView(otel_span),
                        context |-> None, hub |-> hub,
                        pre_map |-> otel_span_map, pre_objs |-> objs, raised |-> FALSE,
                        native |-> <<>>]
       ELSE LET trace_data == _get_trace_data(otel_span, parent_context)
                parent_span_id == trace_data.parent_span_id
                sentry_parent_span == LookupParent(otel_span_map, parent_span_id)
                call == StartCall(otel_span, trace_data, sentry_parent_span)
                sentry_span ==
                    IF call.fn = "start_child"
                    THEN StartChild(call.on, call.args)
                    ELSE StartTransaction(call.args)
                handle == Len(objs) + 1
            IN  /\ objs' = Append(objs, sentry_span)
                /\ otel_span_map' = Stored(otel_span_map, trace_data.span_id, handle)
                /\ last' = [call |-> "on_start", span |-> StartView(otel_span),
                            context |-> parent_context, hub |-> hub,
                            pre_map |-> otel_span_map, pre_objs |-> objs, raised |-> FALSE,
                            trace_data |-> trace_data,
                            native |-> <<call>>]

(***************************************************************************)
(* SentrySpanProcessor._get_otel_context                                   *)
(***************************************************************************)
\* both entries written whether or not there is anything to write
_get_otel_context_Both(otel_span) ==
    Put(Put(EmptyDict, "attributes", otel_span.attributes),
        "resource", otel_span.resource.attributes)

_get_otel_context(otel_span) ==
    LET ctx0 == EmptyDict
        ctx1 == IF DOMAIN otel_span.attributes # {}
                THEN Put(ctx0, "attributes", otel_span.attributes)
                ELSE ctx0
        ctx2 == IF DOMAIN otel_span.resource.attributes # {}
                THEN Put(ctx1, "resource", otel_span.resource.attributes)
                ELSE ctx1
    IN  ctx2

(***************************************************************************)
(* SentrySpanProcessor._update_span_with_otel_data                         *)
(***************************************************************************)
RECURSIVE CopyData(_, _, _)
\* for key in otel_span.attributes: sentry_span.set_data(key, attributes[key])
CopyData(sentry_span, attributes, keys) ==
    IF keys = {}
    THEN sentry_span
    ELSE LET key == CHOOSE k \in keys : TRUE
         IN  CopyData(SetData(sentry_span, key, attributes[key]),
                      attributes, keys \ {key})

\* op = "http.{}".format(http_method)
HttpOp(http_method) == HttpPrefix \o Format(http_method)

\* the target put before the peer name
HttpDescription_TargetFirst(attributes, http_method) ==
    LET description0 == http_method
        target == Get(attributes, HTTP_TARGET)
        description1 == IF Truthy(target)
                        THEN description0 \o Space \o Format(target)
                        ELSE description0
        peer_name == Get(attributes, NET_PEER_NAME)
        description2 == IF Truthy(peer_name)
                        THEN description1 \o Space \o Format(peer_name)
                        ELSE description1
    IN  description2

\* description = http_method, then " {}".format(peer_name) and
\* " {}".format(target) for the ones that are truthy
HttpDescription(attributes, http_method) ==
    LET description0 == http_method
        peer_name == Get(attributes, NET_PEER_NAME)
        description1 == IF Truthy(peer_name)
                        THEN description0 \o Space \o Format(peer_name)
                        ELSE description0
        target == Get(attributes, HTTP_TARGET)
        description2 == IF Truthy(target)
                        THEN description1 \o Space \o Format(target)
                        ELSE description1
    IN  description2

\* the statement never used
DbDescription_NameOnly(attributes, name) == name

\* description of the database branch: the statement when it is truthy
DbDescription(attributes, name) ==
    LET statement == Get(attributes, DB_STATEMENT)
    IN  IF Truthy(statement) THEN statement ELSE name

\* the database system checked before the HTTP method
Category_DbFirst(attributes) ==
    LET http_method == Get(attributes, HTTP_METHOD)
        db_query == Get(attributes, DB_SYSTEM)
    IN  IF Truthy(db_query) THEN "db"
        ELSE IF Truthy(http_method) THEN "http"
        ELSE "default"

\* which branch of the if / elif the attributes select
Category(attributes) ==
    LET http_method == Get(attributes, HTTP_METHOD)
        db_query == Get(attributes, DB_SYSTEM)
    IN  IF Truthy(http_method) THEN "http"
        ELSE IF Truthy(db_query) THEN "db"
        ELSE "default"

\* if status_code: the status code is a number, truthy unless 0
HasStatusCode(attributes) ==
    /\ HTTP_STATUS_CODE \in DOMAIN attributes
    /\ attributes[HTTP_STATUS_CODE] # 0

_update_span_with_otel_data(sentry_span, otel_span) ==
    LET attributes == otel_span.attributes
        copied == CopyData(sentry_span, attributes, DOMAIN attributes)
        http_method == Get(attributes, HTTP_METHOD)
        category == Category(attributes)
        op == CASE category = "http" -> HttpOp(http_method)
                [] category = "db" -> DbOp
                [] OTHER -> otel_span.name
        description ==
              CASE category = "http" -> HttpDescription(attributes, http_method)
                [] category = "db" -> DbDescription(attributes, otel_span.name)
                [] OTHER -> otel_span.name
        tagged == IF category = "http" /\ HasStatusCode(attributes)
                  THEN SetHttpStatus(copied, attributes[HTTP_STATUS_CODE])
                  ELSE copied
    IN  [tagged EXCEPT !.op = op, !.description = description]

(***************************************************************************)
(* SentrySpanProcessor.on_end                                              *)
(***************************************************************************)
\* what on_end reads of the foreign span
EndView(otel_span) ==
    [span_id |-> otel_span.context.span_id,
     name |-> otel_span.name,
     attributes |-> otel_span.attributes,
     resource |-> otel_span.resource.attributes,
     end_time |-> otel_span.end_time]

\* dict.pop(key) with no default raises KeyError when the key is missing
PopRaises(map, key) == key \notin DOMAIN map

\* a lookup in place of the pop: the entry stays
Popped_Kept(map, span_id) == map

\* the whole mapping dropped with the entry
Popped_Cleared(map, span_id) == EmptyDict

\* the mapping after self.otel_span_map.pop(span_id) has returned
Popped(map, span_id) == Without(map, span_id)

\* the classification run on every native object, a transaction too
EndObject_ClassifyAll(sentry_span, otel_span) ==
    LET named == [sentry_span EXCEPT !.op = otel_span.name]
        updated == _update_span_with_otel_data(named, otel_span)
    IN  Finish(updated, FromTimestamp(otel_span.end_time))

\* the native object with handle h once on_end has run on it
EndObject(sentry_span, otel_span) ==
    LET named == [sentry_span EXCEPT !.op = otel_span.name]
        updated ==
            IF IsTransaction(named)
            THEN SetContext([named EXCEPT !.name = otel_span.name],
                            OPEN_TELEMETRY_CONTEXT, _get_otel_context(otel_span))
            ELSE _update_span_with_otel_data(named, otel_span)
    IN  Finish(updated, FromTimestamp(otel_span.end_time))

\* the calls on_end makes on the native object with handle h
EndCalls(h, otel_span) ==
    <<Call("set_op", h, [op |-> otel_span.name])>>
    \o (IF IsTransaction(objs[h])
        THEN <<Call("set_name", h, [name |-> otel_span.name]),
               Call("set_context", h,
                    [key |-> OPEN_TELEMETRY_CONTEXT,
                     value |-> _get_otel_context(otel_span)])>>
        ELSE <<Call("_update_span_with_otel_data", h,
                    [attributes |-> otel_span.attributes,
                     name |-> otel_span.name])>>)
    \o <<Call("finish", h,
              [end_timestamp |-> FromTimestamp(otel_span.end_time)])>>

on_end(otel_span) ==
    LET span_id == format_span_id(otel_span.context.span_id)
    IN  /\ ended' = ended \cup {otel_span.context.span_id}
        /\ stray' = IF otel_span.context.span_id \in started \ ended
                    THEN stray
                    ELSE stray \cup {otel_span.context.span_id}
        /\ UNCHANGED <<started, sessionless, pending>>
        /\ IF PopRaises(otel_span_map, span_id)
           THEN /\ UNCHANGED <<otel_span_map, objs>>
                /\ last' = [call |-> "on_end", span |-> IdView(otel_span),
                            pre_map |-> otel_span_map, pre_objs |-> objs, raised |-> TRUE,
                            native |-> <<>>]
           ELSE LET sentry_span == otel_span_map[span_id]
                IN  /\ otel_span_map' = Popped(otel_span_map, span_id)
                    /\ objs' = [objs EXCEPT ![sentry_span] =
                                    EndObject(objs[sentry_span], otel_span)]
                    /\ last' = [call |-> "on_end", span |-> EndView(otel_span),
                                pre_map |-> otel_span_map, pre_objs |-> objs, raised |-> FALSE,
                                native |-> EndCalls(sentry_span, otel_span)]

(***************************************************************************)
(* The notifications of the foreign tracer.  A foreign span is given to a  *)
(* handler as the record of the fields that handler reads.                 *)
(***************************************************************************)
Names == {<<"s", "1">>, <<"s", "2">>}
StartTimes == {1500000000}
EndTimes == {2000000001}

\* otel_span.parent: None (the empty tuple) or a span context
Parents(id) ==
    {<<>>} \cup {<<[span_id |-> p]>> : p \in (SpanIds \cup {UntrackedId}) \ {id}}

StartSpans(ids, names) ==
    UNION {{[context |-> [span_id |-> id, trace_id |-> t],
             parent |-> p, name |-> n, start_time |-> st] :
                t \in TraceIds, p \in Parents(id), n \in names,
                st \in StartTimes} : id \in ids}

\* the ambient context: either key may be missing
Baggages ==
    {<<"s", "e", "n", "t", "r", "y", "-", "t", "r", "a", "c", "e", "_", "i", "d",
       "=", "7", "7", "1", "a", "4", "3", "a", "4">>}
SentryTraces ==
    {<<format_trace_id(t), format_span_id(UntrackedId), sampled>> :
        t \in TraceIds, sampled \in {True, False}}
Contexts ==
    {EmptyDict}
    \cup {(SENTRY_TRACE_KEY :> st) : st \in SentryTraces}
    \cup {(SENTRY_BAGGAGE_KEY :> b) : b \in Baggages}
    \cup {(SENTRY_TRACE_KEY :> st) @@ (SENTRY_BAGGAGE_KEY :> b) :
            st \in SentryTraces, b \in Baggages}

\* a dictionary with at most the one key
Opt(key, values) == {EmptyDict} \cup {(key :> v) : v \in values}

\* the method: empty, a method name, and the text "None", which is a str
Methods == {<<>>, <<"G", "E", "T">>, <<"N", "o", "n", "e">>}
PeerNames == {<<>>, <<"e", ".", "c">>}
Targets == {<<>>, <<"/">>}
StatusCodes == {0, 429}
DbSystems == {<<>>, <<"p", "g">>}
Statements == {<<>>, <<"S", " ", "1">>}

\* every attribute dictionary over the keys the classification reads
AllAttributes ==
    {m @@ p @@ t @@ c @@ d @@ q :
        m \in Opt(HTTP_METHOD, Methods),
        p \in Opt(NET_PEER_NAME, PeerNames),
        t \in Opt(HTTP_TARGET, Targets),
        c \in Opt(HTTP_STATUS_CODE, StatusCodes),
        d \in Opt(DB_SYSTEM, DbSystems),
        q \in Opt(DB_STATEMENT, Statements)}

\* the inputs of the lifecycle specification
LifecycleNames == {<<"s", "1">>}
LifecycleAttributes ==
    {(HTTP_METHOD :> <<"G", "E", "T">>) @@ (DB_SYSTEM :> <<"p", "g">>)}
LifecycleContexts == {EmptyDict}
LifecycleResources == {("service.name" :> <<"s", "v", "c">>)}

Resources == {EmptyDict, ("service.name" :> <<"s", "v", "c">>)}

EndSpans(ids, names, attributeSets, resources) ==
    {[context |-> [span_id |-> id],
      name |-> n, attributes |-> a, resource |-> [attributes |-> r],
      end_time |-> et] :
        id \in ids, n \in names, a \in attributeSets, r \in resources,
        et \in EndTimes}

(***************************************************************************)
(* The bridge under any sequence of notifications: every span id starts at *)
(* most once; an end may come for any id at any time.                      *)
(***************************************************************************)
Init ==
    /\ otel_span_map = EmptyDict
    /\ objs = <<>>
    /\ started = {}
    /\ ended = {}
    /\ sessionless = {}
    /\ stray = {}
    /\ last = [call |-> "none", pre_map |-> EmptyDict, pre_objs |-> <<>>,
               raised |-> FALSE, native |-> <<>>]
    /\ pending = [start |-> <<>>, end |-> <<>>]

\* the spans with the given id that on_end can tell apart: when the pop
\* raises, on_end has read the span id only, and one span stands for all
EndInputs(id, spans) ==
    IF PopRaises(otel_span_map, format_span_id(id))
    THEN {CHOOSE s \in spans : TRUE}
    ELSE spans

LifecycleStartSpans == StartSpans(SpanIds, LifecycleNames)
LifecycleEndSpans(id) ==
    EndSpans({id}, LifecycleNames, LifecycleAttributes, LifecycleResources)

Next ==
    \/ \E otel_span \in LifecycleStartSpans,
          parent_context \in LifecycleContexts, hub \in BOOLEAN :
          on_start(otel_span, parent_context, hub)
    \/ \E id \in SpanIds :
          \E otel_span \in EndInputs(id, LifecycleEndSpans(id)) :
              on_end(otel_span)

Spec == Init /\ [][Next]_vars

(***************************************************************************)
(* The bridge on one pair of spans, the first a root and the second ending *)
(* with every attribute dictionary: the specification of the               *)
(* classification.                                                         *)
(***************************************************************************)
FirstId == IdStride
SecondId == IdStride + IdStride

ClassifyStartSpans ==
    {s \in StartSpans({FirstId, SecondId}, LifecycleNames) :
        /\ s.context.span_id = FirstId => s.parent = <<>>
        /\ s.context.span_id = SecondId =>
              s.parent \in {<<>>, <<[span_id |-> FirstId]>>}}
ClassifyFirstEndSpans ==
    EndSpans({FirstId}, LifecycleNames, LifecycleAttributes, LifecycleResources)
ClassifySecondEndSpans ==
    EndSpans({SecondId}, Names, AllAttributes, LifecycleResources)

NextClassify ==
    \/ \E otel_span \in ClassifyStartSpans,
          parent_context \in LifecycleContexts :
          on_start(otel_span, parent_context, TRUE)
    \/ \E otel_span \in EndInputs(FirstId, ClassifyFirstEndSpans) : on_end(otel_span)
    \/ \E otel_span \in EndInputs(SecondId, ClassifySecondEndSpans) : on_end(otel_span)

SpecClassify == Init /\ [][NextClassify]_vars

(***************************************************************************)
(* The bridge on the same pair of spans under every ambient context, with  *)
(* any parent, and ending with and without attributes and resource         *)
(* attributes: the specification of the trace data and the context block.  *)
(***************************************************************************)
ContextStartSpans == StartSpans({FirstId, SecondId}, LifecycleNames)
ContextAttributes == {EmptyDict} \cup LifecycleAttributes
ContextEndSpans(id) ==
    EndSpans({id}, LifecycleNames, ContextAttributes, Resources)

NextContext ==
    \/ \E otel_span \in ContextStartSpans, parent_context \in Contexts :
          on_start(otel_span, parent_context, TRUE)
    \/ \E id \in {FirstId, SecondId} :
          \E otel_span \in EndInputs(id, ContextEndSpans(id)) :
              on_end(otel_span)

SpecContext == Init /\ [][NextContext]_vars

(***************************************************************************)
(* The bridge under the foreign tracer's guarantee: every span id starts   *)
(* at most once, an end comes only for a span that has started and not     *)
(* ended, and every started span eventually gets its end.                  *)
(***************************************************************************)
\* the on_end of the started span with the given id; it adds the id to ended
MatchingEnd(id) ==
    /\ id \in started \ ended
    /\ \E otel_span \in EndInputs(id, LifecycleEndSpans(id)) : on_end(otel_span)

NextLive ==
    \/ \E otel_span \in LifecycleStartSpans,
          parent_context \in LifecycleContexts, hub \in BOOLEAN :
          on_start(otel_span, parent_context, hub)
    \/ \E id \in SpanIds : MatchingEnd(id)

SpecLive ==
    /\ Init
    /\ [][NextLive]_vars
    /\ \A id \in SpanIds : WF_ended(MatchingEnd(id))

(***************************************************************************)
(* The bridge with an on_start and an on_end that overlap.  The processor  *)
(* takes no lock: each handler is a sequence of steps, the read or the pop *)
(* of the mapping being one step and the calls on the native tracer that   *)
(* follow it another, and the steps of the two handlers interleave.        *)
(***************************************************************************)
\* on_start up to the lookup of the parent
StartLookup(otel_span, parent_context, hub) ==
    /\ pending.start = <<>>
    /\ otel_span.context.span_id \notin started
    /\ started' = started \cup {otel_span.context.span_id}
    /\ sessionless' = IF hub THEN sessionless
                      ELSE sessionless \cup {otel_span.context.span_id}
    /\ UNCHANGED <<ended, stray, otel_span_map, objs>>
    /\ IF NoSession(hub)
       THEN /\ UNCHANGED pending
            /\ last' = [call |-> "on_start", span |-> IdView(otel_span),
                        context |-> None, hub |-> hub,
                        pre_map |-> otel_span_map, pre_objs |-> objs, raised |-> FALSE,
                        native |-> <<>>]
       ELSE LET trace_data == _get_trace_data(otel_span, parent_context)
                sentry_parent_span ==
                    LookupParent(otel_span_map, trace_data.parent_span_id)
            IN  /\ pending' = [pending EXCEPT !.start =
                                  <<[otel_span |-> otel_span,
                                     parent_context |-> parent_context,
                                     hub |-> hub,
                                     trace_data |-> trace_data,
                                     sentry_parent_span |-> sentry_parent_span]>>]
                /\ UNCHANGED last

\* on_start from the call on the native tracer to the store
StartCreate ==
    /\ pending.start # <<>>
    /\ LET local == pending.start[1]
           call == StartCall(local.otel_span, local.trace_data,
                             local.sentry_parent_span)
           sentry_span ==
               IF call.fn = "start_child"
               THEN StartChild(call.on, call.args)
               ELSE StartTransaction(call.args)
           handle == Len(objs) + 1
       IN  /\ objs' = Append(objs, sentry_span)
           /\ otel_span_map' =
                 Stored(otel_span_map, local.trace_data.span_id, handle)
           /\ last' = [call |-> "on_start", span |-> StartView(local.otel_span),
                       context |-> local.parent_context, hub |-> local.hub,
                       pre_map |-> otel_span_map, pre_objs |-> objs, raised |-> FALSE,
                       trace_data |-> local.trace_data,
                       native |-> <<call>>]
    /\ pending' = [pending EXCEPT !.start = <<>>]
    /\ UNCHANGED <<started, ended, sessionless, stray>>

\* on_end up to the pop
EndPop(otel_span) ==
    LET span_id == format_span_id(otel_span.context.span_id)
    IN  /\ pending.end = <<>>
        /\ ended' = ended \cup {otel_span.context.span_id}
        /\ stray' = IF otel_span.context.span_id \in started \ ended
                    THEN stray
                    ELSE stray \cup {otel_span.context.span_id}
        /\ UNCHANGED <<started, sessionless, objs>>
        /\ IF PopRaises(otel_span_map, span_id)
           THEN /\ UNCHANGED <<otel_span_map, pending>>
                /\ last' = [call |-> "on_end", span |-> IdView(otel_span),
                            pre_map |-> otel_span_map, pre_objs |-> objs, raised |-> TRUE,
                            native |-> <<>>]
           ELSE /\ otel_span_map' = Popped(otel_span_map, span_id)
                /\ pending' = [pending EXCEPT !.end =
                                  <<[otel_span |-> otel_span,
                                     sentry_span |-> otel_span_map[span_id],
                                     pre_map |-> otel_span_map]>>]
                /\ UNCHANGED last

\* on_end from the update of the native object to its finish
EndFinish ==
    /\ pending.end # <<>>
    /\ LET local == pending.end[1]
       IN  /\ objs' = [objs EXCEPT ![local.sentry_span] =
                           EndObject(objs[local.sentry_span], local.otel_span)]
           /\ last' = [call |-> "on_end", span |-> EndView(local.otel_span),
                       pre_map |-> local.pre_map, pre_objs |-> objs, raised |-> FALSE,
                       native |-> EndCalls(local.sentry_span, local.otel_span)]
    /\ pending' = [pending EXCEPT !.end = <<>>]
    /\ UNCHANGED <<otel_span_map, started, ended, sessionless, stray>>

NextConcurrent ==
    \/ \E otel_span \in ClassifyStartSpans,
          parent_context \in LifecycleContexts :
          StartLookup(otel_span, parent_context, TRUE)
    \/ StartCreate
    \/ \E id \in {FirstId, SecondId} :
          \E otel_span \in EndInputs(id, LifecycleEndSpans(id)) :
              EndPop(otel_span)
    \/ EndFinish

SpecConcurrent == Init /\ [][NextConcurrent]_vars

(***************************************************************************)
(* Properties.                                                             *)
(***************************************************************************)
\* the mapping key of the span of the last notification
LastKey == format_span_id(last.span.span_id)

\* the keys of the spans that have started and not yet ended
OpenKeys == {format_span_id(id) : id \in started \ ended}

\* the last notification left the mapping and every native object as they were
LastTouchedNothing ==
    /\ otel_span_map = last.pre_map
    /\ objs = last.pre_objs
    /\ last.native = <<>>

\* C1: on_end for a span whose id is not in the mapping is a no-op: it does
\* not raise, and it finishes or mutates no native object.
C1_EndOfAbsentIdIsNoOp ==
    (last.call = "on_end" /\ LastKey \notin DOMAIN last.pre_map)
        => (~last.raised /\ LastTouchedNothing)

\* C2: on_end(s) never adds, removes or replaces a mapping entry stored under
\* a key other than s's own span id, whether or not s's id is in the mapping.
C2_EndKeepsOtherEntries ==
    last.call = "on_end" =>
        \A k \in (DOMAIN last.pre_map \cup DOMAIN otel_span_map) \ {LastKey} :
            /\ k \in DOMAIN last.pre_map
            /\ k \in DOMAIN otel_span_map
            /\ otel_span_map[k] = last.pre_map[k]

\* on_end has removed its own entry and the entry of another span is there
C2_Witness ==
    /\ last.call = "on_end"
    /\ LastKey \in DOMAIN last.pre_map
    /\ DOMAIN otel_span_map # {}

\* C3: with a session active at every on_start and the tracer's contract
\* honoured (unique ids, each span's on_start once and before its on_end), the
\* keys of the mapping are exactly the ids started and not yet ended.
C3_MapIsOpenSpans ==
    (sessionless = {} /\ stray = {}) => DOMAIN otel_span_map = OpenKeys

\* a span has started and ended and another is still open, all within the
\* contract
C3_Witness ==
    /\ sessionless = {}
    /\ stray = {}
    /\ ended # {}
    /\ started \ ended # {}

\* the parent of the span of the last on_start was in the mapping
LastParentFound ==
    /\ last.span.parent # <<>>
    /\ format_span_id(last.span.parent[1].span_id) \in DOMAIN last.pre_map

\* the last notification was an on_start with a session active
LastStartInSession == last.call = "on_start" /\ last.hub

\* the native object the last on_start stored
LastStarted == objs[otel_span_map[LastKey]]

\* C4: a span with no parent id, or with a parent id that is not a key of the
\* mapping, is started as a transaction and not as a child span.
C4_NoParentFoundStartsTransaction ==
    (LastStartInSession /\ ~LastParentFound) =>
        /\ Len(last.native) = 1
        /\ last.native[1].fn = "start_transaction"
        /\ Len(objs) = Len(last.pre_objs) + 1
        /\ IsTransaction(LastStarted)
        /\ LastStarted.parent = NoObj

\* a span whose parent id is not in the mapping starts while another span is
\* live
C4_Witness ==
    /\ LastStartInSession
    /\ last.span.parent # <<>>
    /\ ~LastParentFound
    /\ DOMAIN last.pre_map # {}
    /\ IsTransaction(LastStarted)

\* C5: a span whose parent id is a key of the mapping is started as a child of
\* exactly the native object stored under that id, with the span's own id and
\* name, and no transaction is started.
C5_ParentFoundStartsChild ==
    (LastStartInSession /\ LastParentFound) =>
        LET parent == last.pre_map[format_span_id(last.span.parent[1].span_id)]
        IN  /\ Len(last.native) = 1
            /\ last.native[1].fn = "start_child"
            /\ last.native[1].on = parent
            /\ last.native[1].args.span_id = LastKey
            /\ last.native[1].args.description = last.span.name
            /\ Len(objs) = Len(last.pre_objs) + 1
            /\ ~IsTransaction(LastStarted)
            /\ LastStarted.parent = parent
            /\ LastStarted.span_id = LastKey

\* a child has been started on a live parent
C5_Witness ==
    /\ LastStartInSession
    /\ LastParentFound
    /\ ~IsTransaction(LastStarted)

\* C6: on_end for a span whose id is in the mapping removes exactly that
\* entry: the id is no longer a key and the mapping is smaller by one.
C6_EndRemovesItsEntry ==
    (last.call = "on_end" /\ LastKey \in DOMAIN last.pre_map) =>
        /\ LastKey \notin DOMAIN otel_span_map
        /\ Cardinality(DOMAIN otel_span_map)
              = Cardinality(DOMAIN last.pre_map) - 1

\* on_end has run for a span that was in a mapping of two entries
C6_Witness ==
    /\ last.call = "on_end"
    /\ LastKey \in DOMAIN last.pre_map
    /\ Cardinality(DOMAIN last.pre_map) = 2
    /\ Cardinality(DOMAIN otel_span_map) = 1

\* C7: on_start with no session active is a no-op: no transaction and no child
\* span is created and nothing is inserted into the mapping.
C7_StartWithoutSessionIsNoOp ==
    (last.call = "on_start" /\ ~last.hub) =>
        /\ LastTouchedNothing
        /\ LastKey \notin DOMAIN otel_span_map

\* on_start has come without a session while another span was live
C7_Witness ==
    /\ last.call = "on_start"
    /\ ~last.hub
    /\ DOMAIN otel_span_map # {}

(***************************************************************************)
(* Properties of the attribute classification.                             *)
(***************************************************************************)
UpperLetters == <<"A", "B", "C", "D", "E", "F", "G", "H", "I", "J", "K", "L", "M",
                  "N", "O", "P", "Q", "R", "S", "T", "U", "V", "W", "X", "Y", "Z">>
LowerLetters == <<"a", "b", "c", "d", "e", "f", "g", "h", "i", "j", "k", "l", "m",
                  "n", "o", "p", "q", "r", "s", "t", "u", "v", "w", "x", "y", "z">>

\* the lowercase form of a character
LowerChar(c) ==
    IF \E i \in 1..Len(UpperLetters) : UpperLetters[i] = c
    THEN LowerLetters[CHOOSE i \in 1..Len(UpperLetters) : UpperLetters[i] = c]
    ELSE c

\* the lowercase form of a text
Lower(text) == [i \in 1..Len(text) |-> LowerChar(text[i])]

\* text begins with prefix
StartsWith(text, prefix) ==
    /\ Len(text) >= Len(prefix)
    /\ SubSeq(text, 1, Len(prefix)) = prefix

\* the last notification was an on_end that found its native object, a
\* non-root span
LastEndedSpan ==
    /\ last.call = "on_end"
    /\ ~last.raised
    /\ ~IsTransaction(objs[last.native[1].on])

\* the native object the last on_end finished
LastEnded == objs[last.native[1].on]

\* the attributes of the span of the last on_end
LastAttributes == last.span.attributes

\* the attribute is on the span of the last on_end
Carries(key) == key \in DOMAIN LastAttributes

\* the attribute is on the span of the last on_end and is not empty
CarriesNonEmpty(key) == Carries(key) /\ LastAttributes[key] # <<>>

\* C8: a non-root span that carries an HTTP-method attribute gets the
\* operation "http." followed by the lowercase form of the method.
C8_HttpOpIsLowercase ==
    (LastEndedSpan /\ CarriesNonEmpty(HTTP_METHOD)) =>
        LastEnded.op = HttpPrefix \o Lower(LastAttributes[HTTP_METHOD])

\* the operation is "http." and the method in some letter case
IsHttpOpOf(op, method) ==
    /\ StartsWith(op, HttpPrefix)
    /\ Lower(SubSeq(op, Len(HttpPrefix) + 1, Len(op))) = Lower(method)

\* the result is the one of the HTTP branch and not of the database branch
HttpNotDbResult ==
    /\ IsHttpOpOf(LastEnded.op, LastAttributes[HTTP_METHOD])
    /\ LastEnded.op # DbOp
    /\ StartsWith(LastEnded.description, LastAttributes[HTTP_METHOD])
    /\ LastEnded.description # Get(LastAttributes, DB_STATEMENT)
    /\ LastEnded.description # last.span.name

\* C9 as stated: a non-root span carrying an HTTP-method attribute and a
\* database-system attribute gets the HTTP classification, never the database
\* one.
C9_HttpBeforeDb_AnyMethod ==
    (LastEndedSpan /\ Carries(HTTP_METHOD) /\ Carries(DB_SYSTEM)) =>
        HttpNotDbResult

\* C9: a non-root span carrying a non-empty HTTP-method attribute and a
\* database-system attribute gets the operation and description of the HTTP
\* classification; the database branch is not applied.
C9_HttpBeforeDb ==
    (LastEndedSpan /\ CarriesNonEmpty(HTTP_METHOD) /\ Carries(DB_SYSTEM)) =>
        HttpNotDbResult

\* a span with a method, a database system and a statement has ended
C9_Witness ==
    /\ LastEndedSpan
    /\ CarriesNonEmpty(HTTP_METHOD)
    /\ CarriesNonEmpty(DB_SYSTEM)
    /\ CarriesNonEmpty(DB_STATEMENT)
    /\ LastEnded.finished

\* a space and the attribute's value when present says so, else nothing
Part(present, key) ==
    IF present THEN Space \o LastAttributes[key] ELSE <<>>

\* C10 as stated: under HTTP classification the description is the method,
\* then a space and the peer name if a peer-name attribute is present, then a
\* space and the target if a target attribute is present.
C10_HttpDescription_AnyValue ==
    (LastEndedSpan /\ CarriesNonEmpty(HTTP_METHOD)) =>
        LastEnded.description =
            LastAttributes[HTTP_METHOD]
                \o Part(Carries(NET_PEER_NAME), NET_PEER_NAME)
                \o Part(Carries(HTTP_TARGET), HTTP_TARGET)

\* C10: under HTTP classification the description is the method, then a space
\* and the peer name if a non-empty peer-name attribute is present, then a
\* space and the target if a non-empty target attribute is present.
C10_HttpDescription ==
    (LastEndedSpan /\ CarriesNonEmpty(HTTP_METHOD)) =>
        LastEnded.description =
            LastAttributes[HTTP_METHOD]
                \o Part(CarriesNonEmpty(NET_PEER_NAME), NET_PEER_NAME)
                \o Part(CarriesNonEmpty(HTTP_TARGET), HTTP_TARGET)

\* a span with a method, a peer name and a target has ended
C10_Witness ==
    /\ LastEndedSpan
    /\ CarriesNonEmpty(HTTP_METHOD)
    /\ CarriesNonEmpty(NET_PEER_NAME)
    /\ CarriesNonEmpty(HTTP_TARGET)
    /\ LastEnded.finished

\* the result is the one of the database branch, with the statement as the
\* description when says so and the span name otherwise
DbResult(withStatement) ==
    /\ LastEnded.op = DbOp
    /\ LastEnded.description =
          IF withStatement THEN LastAttributes[DB_STATEMENT] ELSE last.span.name

\* the operation and the description are the span name
DefaultResult ==
    /\ LastEnded.op = last.span.name
    /\ LastEnded.description = last.span.name

\* C11 as stated: a non-root span with a database-system attribute and no
\* HTTP-method attribute gets the operation "db" and the statement as its
\* description when a statement attribute is present, else the span name; with
\* neither attribute the operation and the description are the span name.
C11_DbClassification_AnyValue ==
    LastEndedSpan =>
        /\ (Carries(DB_SYSTEM) /\ ~Carries(HTTP_METHOD))
              => DbResult(Carries(DB_STATEMENT))
        /\ (~Carries(DB_SYSTEM) /\ ~Carries(HTTP_METHOD)) => DefaultResult

\* C11: a non-root span with a non-empty database-system attribute and no
\* HTTP-method attribute gets the operation "db" and the statement as its
\* description when a non-empty statement attribute is present, else the span
\* name; with neither attribute the operation and the description are the
\* span name.
C11_DbClassification ==
    LastEndedSpan =>
        /\ (CarriesNonEmpty(DB_SYSTEM) /\ ~Carries(HTTP_METHOD))
              => DbResult(CarriesNonEmpty(DB_STATEMENT))
        /\ (~Carries(DB_SYSTEM) /\ ~Carries(HTTP_METHOD)) => DefaultResult

\* a span with a database system and a statement and no method has ended
C11_Witness ==
    /\ LastEndedSpan
    /\ CarriesNonEmpty(DB_SYSTEM)
    /\ CarriesNonEmpty(DB_STATEMENT)
    /\ ~Carries(HTTP_METHOD)
    /\ LastEnded.finished

\* the last notification was an on_end that found its native object
LastEndFound == last.call = "on_end" /\ ~last.raised

\* the native object of the last on_end as it was before
LastEndedBefore == last.pre_objs[last.native[1].on]

\* C12: on_end of a transaction runs no classification: operation and name
\* become the span name, description and data stay as they were, whatever
\* attributes the span carries.  on_end of a non-root span runs the
\* classification and sets no trace-wide name and no context.
C12_TransactionsAreNotClassified ==
    LastEndFound =>
        IF IsTransaction(LastEndedBefore)
        THEN /\ LastEnded.op = last.span.name
             /\ LastEnded.name = last.span.name
             /\ LastEnded.description = LastEndedBefore.description
             /\ LastEnded.data = LastEndedBefore.data
             /\ LastEnded.http_status = LastEndedBefore.http_status
        ELSE /\ \A k \in DOMAIN LastAttributes :
                    /\ k \in DOMAIN LastEnded.data
                    /\ LastEnded.data[k] = LastAttributes[k]
             /\ CarriesNonEmpty(HTTP_METHOD)
                    => StartsWith(LastEnded.op, HttpPrefix)
             /\ LastEnded.name = LastEndedBefore.name
             /\ LastEnded.contexts = LastEndedBefore.contexts

\* a transaction has ended whose span carries a method, a database system and
\* a status code
C12_Witness ==
    /\ LastEndFound
    /\ IsTransaction(LastEnded)
    /\ CarriesNonEmpty(HTTP_METHOD)
    /\ CarriesNonEmpty(DB_SYSTEM)
    /\ Carries(HTTP_STATUS_CODE)
    /\ LastEnded.finished

\* the parent id of the span of the last on_start as the native tracer gets
\* it: absent when the span has no parent
LastParentId ==
    IF last.span.parent = <<>> THEN None
    ELSE format_span_id(last.span.parent[1].span_id)

\* the ambient baggage of the last on_start: absent when the context has none
LastBaggage ==
    IF SENTRY_BAGGAGE_KEY \in DOMAIN last.context
    THEN last.context[SENTRY_BAGGAGE_KEY] ELSE None

\* the last on_start started a transaction
LastStartedTransaction ==
    /\ LastStartInSession
    /\ last.native[1].fn = "start_transaction"

\* C13: when a transaction is started, the native tracer gets the span name,
\* the span id, the trace id, the foreign parent span id (absent when the
\* span has no parent, present even when the parent is not tracked) and the
\* ambient baggage unchanged (absent when the context has none).
C13_TransactionArguments ==
    LastStartedTransaction =>
        /\ last.native[1].on = NoObj
        /\ last.native[1].args.name = last.span.name
        /\ last.native[1].args.span_id = format_span_id(last.span.span_id)
        /\ last.native[1].args.trace_id = format_trace_id(last.span.trace_id)
        /\ last.native[1].args.parent_span_id = LastParentId
        /\ last.native[1].args.baggage = LastBaggage
        /\ LastStarted.name = last.span.name
        /\ LastStarted.span_id = format_span_id(last.span.span_id)
        /\ LastStarted.trace_id = format_trace_id(last.span.trace_id)
        /\ LastStarted.parent_span_id = LastParentId
        /\ LastStarted.baggage = LastBaggage

\* a transaction has started for a span whose parent is not tracked, under a
\* context with baggage
C13_Witness ==
    /\ LastStartedTransaction
    /\ last.span.parent # <<>>
    /\ ~LastParentFound
    /\ SENTRY_BAGGAGE_KEY \in DOMAIN last.context
    /\ LastStarted.parent_span_id = format_span_id(last.span.parent[1].span_id)
    /\ LastStarted.baggage \in Baggages

\* C14: in the trace data the parent span id is absent exactly when the span
\* has no parent; the parent sampling decision is the third element of the
\* trace triple when the context has one, True and False both kept, and is
\* absent otherwise; the baggage is the context's, verbatim, or absent; the
\* two context keys are read independently.
C14_TraceData ==
    LastStartInSession =>
        /\ last.trace_data.span_id = format_span_id(last.span.span_id)
        /\ last.trace_data.trace_id = format_trace_id(last.span.trace_id)
        /\ last.trace_data.parent_span_id = LastParentId
        /\ (last.trace_data.parent_span_id = None) <=> (last.span.parent = <<>>)
        /\ IF SENTRY_TRACE_KEY \in DOMAIN last.context
           THEN last.trace_data.parent_sampled = last.context[SENTRY_TRACE_KEY][3]
           ELSE last.trace_data.parent_sampled = None
        /\ last.trace_data.baggage = LastBaggage

\* the trace data have been read under a context with baggage and no trace
\* triple, for a span with a parent
C14_Witness ==
    /\ LastStartInSession
    /\ SENTRY_TRACE_KEY \notin DOMAIN last.context
    /\ SENTRY_BAGGAGE_KEY \in DOMAIN last.context
    /\ last.span.parent # <<>>
    /\ last.trace_data.baggage \in Baggages
    /\ last.trace_data.parent_sampled = None

\* the context block the last on_end set on its transaction
LastBlock == LastEnded.contexts[OPEN_TELEMETRY_CONTEXT]

\* the last on_end ended a transaction
LastEndedTransaction == LastEndFound /\ IsTransaction(LastEnded)

\* C15: the context block set on a transaction at on_end has the entry
\* "attributes" exactly when the span has at least one attribute, the entry
\* "resource" exactly when the span's resource has at least one attribute,
\* and no other entry.
C15_ContextBlock ==
    LastEndedTransaction =>
        /\ DOMAIN LastEnded.contexts = {OPEN_TELEMETRY_CONTEXT}
        /\ DOMAIN LastBlock \subseteq {"attributes", "resource"}
        /\ ("attributes" \in DOMAIN LastBlock) <=> (DOMAIN LastAttributes # {})
        /\ ("resource" \in DOMAIN LastBlock) <=> (DOMAIN last.span.resource # {})
        /\ "attributes" \in DOMAIN LastBlock
              => LastBlock["attributes"] = LastAttributes
        /\ "resource" \in DOMAIN LastBlock
              => LastBlock["resource"] = last.span.resource

\* a transaction has ended whose span has no attribute and whose resource
\* has one
C15_Witness ==
    /\ LastEndedTransaction
    /\ DOMAIN LastAttributes = {}
    /\ DOMAIN last.span.resource # {}
    /\ DOMAIN LastBlock = {"resource"}

\* the foreign span of the last on_start, from what on_start read of it
LastStartSpan ==
    [context |-> [span_id |-> last.span.span_id, trace_id |-> last.span.trace_id],
     parent |-> last.span.parent,
     name |-> last.span.name,
     start_time |-> last.span.start_time]

\* the contexts that differ from the given one in the parent sampling
\* decision at most: without a trace triple, and with either decision
SamplingVariants(context) ==
    {Without(context, SENTRY_TRACE_KEY)}
    \cup {Put(context, SENTRY_TRACE_KEY, <<st[1], st[2], sampled>>) :
            st \in IF SENTRY_TRACE_KEY \in DOMAIN context
                   THEN {context[SENTRY_TRACE_KEY]} ELSE SentryTraces,
            sampled \in {True, False}}

\* the native call on_start makes for the last span from the mapping as it
\* was, under the given context
StartCallUnder(context) ==
    LET trace_data == _get_trace_data(LastStartSpan, context)
    IN  StartCall(LastStartSpan, trace_data,
                  LookupParent(last.pre_map, trace_data.parent_span_id))

\* C20: the parent sampling decision has no effect on on_start: with the
\* decision absent, True or False, and everything else the same, on_start
\* makes the same native call with the same arguments and leaves the same
\* mapping.
C20_SamplingHasNoEffect ==
    LastStartInSession =>
        \A context \in SamplingVariants(last.context) :
            /\ last.native = <<StartCallUnder(context)>>
            /\ otel_span_map =
                  Stored(last.pre_map,
                         _get_trace_data(LastStartSpan, context).span_id,
                         Len(last.pre_objs) + 1)

\* a transaction has started under a context whose trace triple says the
\* parent was sampled out, with baggage
C20_Witness ==
    /\ LastStartedTransaction
    /\ SENTRY_TRACE_KEY \in DOMAIN last.context
    /\ last.context[SENTRY_TRACE_KEY][3] = False
    /\ SENTRY_BAGGAGE_KEY \in DOMAIN last.context
    /\ LastStarted.baggage \in Baggages

\* the handles of the native objects that carry the given span id
HandlesOf(key) == {h \in 1..Len(objs) : objs[h].span_id = key}

\* C16: the id a native object is created with, the key it is stored under
\* and the key on_end looks up are all the foreign span id as fixed-width
\* lowercase hex, so on_end retrieves exactly the object the on_start of the
\* same span created.
C16_IdRoundTrip ==
    /\ format_span_id(43981) =
          <<"0", "0", "0", "0", "0", "0", "0", "0", "0", "0", "0", "0",
            "a", "b", "c", "d">>
    /\ \A key \in DOMAIN otel_span_map :
          /\ Len(key) = SpanIdWidth
          /\ \E id \in started : key = format_span_id(id)
          /\ objs[otel_span_map[key]].span_id = key
          /\ HandlesOf(key) = {otel_span_map[key]}
    /\ LastStartInSession =>
          /\ last.native[1].args.span_id = LastKey
          /\ LastKey \notin DOMAIN last.pre_map
          /\ otel_span_map[LastKey] = Len(objs)
          /\ objs[Len(objs)].span_id = LastKey
    /\ LastEndFound =>
          /\ Len(LastKey) = SpanIdWidth
          /\ last.pre_map[LastKey] = last.native[1].on
          /\ LastEnded.span_id = LastKey
          /\ HandlesOf(LastKey) = {last.native[1].on}

\* on_end has retrieved the native object of the first of two open spans
C16_Witness ==
    /\ LastEndFound
    /\ Len(objs) = 2
    /\ last.native[1].on = 1
    /\ LastEnded.span_id = LastKey
    /\ DOMAIN otel_span_map # {}
    /\ LastKey \notin DOMAIN otel_span_map

\* the handles of the native objects a handler called a method of
Touched(calls) == {calls[i].on : i \in 1..Len(calls)} \ {NoObj}

\* C18: with notifications one after another and span ids unique, an end for
\* an id that has ended or never started and a parent ending before its
\* children included, every native object is finished at most once, only by
\* the on_end of the span with its id, and nothing is called on it afterwards.
C18_FinishedOnce ==
    [][\A h \in 1..Len(objs) :
          /\ objs[h].finished =>
                /\ objs'[h] = objs[h]
                /\ h \notin Touched(last'.native)
          /\ (~objs[h].finished /\ objs'[h].finished) =>
                /\ last'.call = "on_end"
                /\ ~last'.raised
                /\ format_span_id(last'.span.span_id) = objs[h].span_id
                /\ Touched(last'.native) = {h}]_vars

\* an end has come again for a span whose native object is finished, its
\* child still open
C18_Witness ==
    /\ last.call = "on_end"
    /\ last.raised
    /\ last.span.span_id \in started \ sessionless
    /\ \E h \in 1..Len(objs) :
          /\ objs[h].finished
          /\ objs[h].span_id = LastKey
          /\ \E c \in 1..Len(objs) : objs[c].parent = h /\ ~objs[c].finished

\* the native object created for the span id is finished
FinishedFor(id) ==
    \E h \in HandlesOf(format_span_id(id)) : objs[h].finished

\* C19: when every started span eventually gets its on_end, every entry put
\* into the mapping is eventually removed and its native object finished,
\* in whatever order parents and children end, and once every started span
\* has ended the mapping is empty.
C19_EveryEntryIsRemoved ==
    /\ \A id \in SpanIds :
          (format_span_id(id) \in DOMAIN otel_span_map)
              ~> (format_span_id(id) \notin DOMAIN otel_span_map /\ FinishedFor(id))
    /\ [](started \subseteq ended => otel_span_map = EmptyDict)

\* every span has ended, the last of them a child whose parent had finished
\* before it, and the mapping is empty
C19_Witness ==
    /\ started = SpanIds
    /\ ended = started
    /\ otel_span_map = EmptyDict
    /\ LastEndFound
    /\ LastEnded.parent # NoObj
    /\ last.pre_objs[LastEnded.parent].finished
    /\ \A h \in 1..Len(objs) : objs[h].finished

\* the last on_start made its native object a child of another
LastStartedChild ==
    /\ LastStartInSession
    /\ last.native[1].fn = "start_child"

\* C17: when the on_start of a span overlaps the on_end of its parent, the
\* parent in the mapping as both begin, the span is created as a child of
\* the parent before the parent is finished or it is created as a
\* transaction: start_child is never called on a finished parent.
C17_NoChildOfFinishedParent ==
    LastStartedChild => ~last.pre_objs[last.native[1].on].finished
====
